---- MODULE Spec2Model ----
(***************************************************************************)
(* headr: a clone of head(1).  The model covers src/lib.rs: parse (count   *)
(* specifications with unit suffixes), get_args (the two counts), open and *)
(* run (header policy, byte and line prefix extraction).                   *)
(*                                                                         *)
(* Strings are sequences of one-character strings.  An i128 is a sequence  *)
(* of I128Limbs base-256 digits, least significant first, in two's         *)
(* complement; a usize is the low UsizeLimbs digits.                       *)
(***************************************************************************)
EXTENDS Integers, Sequences, FiniteSets, TLC

VARIABLES val, res, ppc,
          lineSpec, byteSpec, files, policy, data, stdin,
          config, pc, file_num, out, err, log, ret

pvars == <<val, res, ppc>>
rvars == <<lineSpec, byteSpec, files, policy, data, stdin,
           config, pc, file_num, out, err, log, ret>>
vars == <<val, res, ppc, lineSpec, byteSpec, files, policy, data, stdin,
          config, pc, file_num, out, err, log, ret>>

(***************************************************************************)
(* Bounds of the model.                                                    *)
(***************************************************************************)
\* longest count specification given to parse
MaxLen == 3
\* longest list of input files
MaxFiles == 2
\* largest file, in bytes
MaxSize == 4

(***************************************************************************)
(* Machine integers.                                                       *)
(***************************************************************************)
I128Limbs == 16
UsizeLimbs == 8
Base == 256

\* Option: None is the empty sequence, Some(x) the one-element sequence
None == << >>
Some(x) == <<x>>
Get(o) == o[1]

Min(a, b) == IF a < b THEN a ELSE b

RECURSIVE NatLimbs(_, _)
NatLimbs(n, k) ==
  IF k = 0 THEN << >> ELSE <<n % Base>> \o NatLimbs(n \div Base, k - 1)

\* a natural number of the model as an i128
FromNat(n) == NatLimbs(n, I128Limbs)

RECURSIVE AddFrom(_, _, _, _)
AddFrom(a, b, k, carry) ==
  IF k > I128Limbs THEN << >>
  ELSE <<(a[k] + b[k] + carry) % Base>>
         \o AddFrom(a, b, k + 1, (a[k] + b[k] + carry) \div Base)

\* wrapping addition of two i128
Add(a, b) == AddFrom(a, b, 1, 0)

\* wrapping negation
Neg(a) == Add([k \in 1..I128Limbs |-> Base - 1 - a[k]], FromNat(1))

FromInt(n) == IF n >= 0 THEN FromNat(n) ELSE Neg(FromNat(0 - n))

\* the sign bit
IsNeg(a) == a[I128Limbs] >= Base \div 2

\* wrapping multiplication of two i128: column k of the long multiplication
RECURSIVE ColSum(_, _, _, _)
ColSum(a, b, k, i) ==
  IF i = 0 THEN 0 ELSE a[i] * b[k + 1 - i] + ColSum(a, b, k, i - 1)

RECURSIVE MulFrom(_, _, _, _)
MulFrom(a, b, k, carry) ==
  IF k > I128Limbs THEN << >>
  ELSE LET t == ColSum(a, b, k, k) + carry
       IN  <<t % Base>> \o MulFrom(a, b, k + 1, t \div Base)

Mul(a, b) == MulFrom(a, b, 1, 0)

\* i128 comparison a < b
RECURSIVE ULess(_, _, _)
ULess(a, b, k) ==
  IF k = 0 THEN FALSE
  ELSE IF a[k] # b[k] THEN a[k] < b[k] ELSE ULess(a, b, k - 1)

SLess(a, b) ==
  IF IsNeg(a) # IsNeg(b) THEN IsNeg(a) ELSE ULess(a, b, I128Limbs)

RECURSIVE Pow(_, _)
Pow(b, e) == IF e = 0 THEN 1 ELSE b * Pow(b, e - 1)

\* 1 << k on i128
Shl1(k) ==
  [j \in 1..I128Limbs |-> IF j = (k \div 8) + 1 THEN Pow(2, k % 8) ELSE 0]

\* `x as usize`: the low 64 bits
AsUsize(a) == [j \in 1..UsizeLimbs |-> a[j]]

\* `x as i128` of a usize of the model (a length)
UsizeAsI128(n) == FromNat(n)

(***************************************************************************)
(* parse, src/lib.rs 148-178.                                              *)
(***************************************************************************)
MAP == <<"K", "M", "G", "T", "P", "E", "Z", "Y">>

\* MAP.find(c): the 0-based position of c, or None
Find(c) ==
  IF \E i \in 1..Len(MAP) : MAP[i] = c
  THEN Some((CHOOSE i \in 1..Len(MAP) : MAP[i] = c) - 1)
  ELSE None

Digits == <<"0", "1", "2", "3", "4", "5", "6", "7", "8", "9">>

IsDigit(c) == \E i \in 1..Len(Digits) : Digits[i] = c

DigitVal(c) == (CHOOSE i \in 1..Len(Digits) : Digits[i] = c) - 1

RECURSIVE DigitsVal(_)
DigitsVal(s) ==
  IF Len(s) = 0 THEN 0
  ELSE 10 * DigitsVal(SubSeq(s, 1, Len(s) - 1)) + DigitVal(s[Len(s)])

\* ParseI128 with the sign dropped instead of applied
ParseI128NoSign(s) ==
  LET signed == Len(s) > 0 /\ s[1] \in {"+", "-"}
      digits == IF signed THEN Tail(s) ELSE s
  IN  IF Len(digits) = 0 \/ \E i \in 1..Len(digits) : ~IsDigit(digits[i])
      THEN None
      ELSE Some(FromInt(DigitsVal(digits)))

\* str::parse::<i128>: an optional sign, then at least one digit and only
\* digits.  None is the Err of parse::<i128>.
ParseI128(s) ==
  LET signed == Len(s) > 0 /\ s[1] \in {"+", "-"}
      digits == IF signed THEN Tail(s) ELSE s
  IN  IF Len(digits) = 0 \/ \E i \in 1..Len(digits) : ~IsDigit(digits[i])
      THEN None
      ELSE IF signed /\ s[1] = "-"
           THEN Some(FromInt(0 - DigitsVal(digits)))
           ELSE Some(FromInt(DigitsVal(digits)))

OkR(n) == [kind |-> "Ok", num |-> n]
ErrR(s) == [kind |-> "Err", text |-> s]
PanicR == [kind |-> "Panic"]
NoR == [kind |-> "None"]

\* lines 174-177: parse the body val[0..len] and scale it
Finish(v, scale, len) ==
  LET n == ParseI128(SubSeq(v, 1, len))
  IN  IF n = None THEN ErrR(v) ELSE OkR(Mul(scale, Get(n)))

\* lines 158-166: the character before 'B' chooses the decimal scale
DecimalScale(c) ==
  IF c = "k" THEN Some(FromNat(1000))
  ELSE IF Find(c) # None THEN Some(FromNat(Pow(10, Get(Find(c))))) ELSE None

\* lines 168-171: a unit letter alone is a binary scale
BinaryScale(c) ==
  IF Find(c) # None THEN Some(Shl1(10 * (Get(Find(c)) + 1))) ELSE None

parse(v) ==
  IF Len(v) = 0 THEN PanicR
  ELSE LET c == v[Len(v)] IN
    IF c = "b" THEN Finish(v, FromNat(512), Len(v) - 1)
    ELSE IF c = "B"
      THEN IF Len(v) < 2 THEN PanicR
           ELSE IF DecimalScale(v[Len(v) - 1]) = None THEN ErrR(v)
           ELSE Finish(v, Get(DecimalScale(v[Len(v) - 1])), Len(v) - 2)
    ELSE IF BinaryScale(c) # None
      THEN Finish(v, Get(BinaryScale(c)), Len(v) - 1)
      ELSE Finish(v, FromNat(1), Len(v))

(***************************************************************************)
(* The specification of parse alone: every string over Alphabet of at most *)
(* MaxLen characters is given to parse once.                               *)
(***************************************************************************)
Alphabet == {"-", "+", "0", "1", "3", "k", "K", "G", "Y", "b", "B", "f", "o"}

RECURSIVE StringsUpTo(_, _)
StringsUpTo(S, n) ==
  IF n = 0 THEN {<< >>}
  ELSE LET shorter == StringsUpTo(S, n - 1)
       IN  shorter \cup {Append(s, c) : s \in shorter, c \in S}

RunIdle ==
  /\ lineSpec = << >> /\ byteSpec = None /\ files = << >> /\ policy = "Never"
  /\ data = << >> /\ stdin = << >>
  /\ config = NoR /\ pc = "idle" /\ file_num = 0
  /\ out = << >> /\ err = << >> /\ log = << >> /\ ret = "None"

ParseInit ==
  /\ val \in StringsUpTo(Alphabet, MaxLen)
  /\ res = NoR
  /\ ppc = "call"
  /\ RunIdle

ParseCall ==
  /\ ppc = "call"
  /\ res' = parse(val)
  /\ ppc' = "ret"
  /\ UNCHANGED <<val, rvars>>

ParseNext == ParseCall

ParseSpec == ParseInit /\ [][ParseNext]_vars

(***************************************************************************)
(* The file system and the sources.  "-" is standard input, "a" a regular  *)
(* file holding data, "m" a file that does not exist.  File contents are   *)
(* valid UTF-8 text over newline and the two-byte e-acute; standard input  *)
(* holds two lines of ASCII, the second without its newline.               *)
(***************************************************************************)
Names == {"-", "a", "m"}

Chars == {<<"\n">>, <<"xC3", "xA9">>}

RECURSIVE Texts(_)
Texts(n) ==
  IF n = 0 THEN {<< >>}
  ELSE LET shorter == Texts(n - 1)
       IN  shorter \cup {t \o c : t \in shorter, c \in Chars}

Contents == {t \in Texts(MaxSize) : Len(t) <= MaxSize}

StdinContents == {<<"a", "\n", "a">>}

FileLists == StringsUpTo(Names, MaxFiles) \ {<< >>}

Policies == {"Always", "Never", "Multiple"}

\* values of -n; "10" is the default of line 32
LineSpecs == {<<"1", "0">>, <<"0">>, <<"1">>, <<"-", "1">>, <<"-", "5">>,
              <<"1", "6", "E">>, <<"x">>, << >>}

\* values of -c
ByteSpecs == {<<"0">>, <<"2">>, <<"-", "1">>, <<"-", "5">>, <<"1", "6", "E">>}

(***************************************************************************)
(* get_args, lines 46-74: both counts go through parse; -c conflicts with  *)
(* -n, so with -c the line count is the default.                           *)
(***************************************************************************)
GetArgs ==
  /\ pc = "args"
  /\ LET l == parse(lineSpec)
         b == IF byteSpec = None THEN NoR ELSE parse(Get(byteSpec))
     IN  IF l.kind = "Panic" \/ b.kind = "Panic"
         THEN /\ pc' = "panic"
              /\ UNCHANGED <<config, err>>
         ELSE IF l.kind = "Err"
         THEN /\ pc' = "argerr"
              /\ err' = <<"illegal line count -- ">> \o l.text
              /\ UNCHANGED config
         ELSE IF b.kind = "Err"
         THEN /\ pc' = "argerr"
              /\ err' = <<"illegal byte count -- ">> \o b.text
              /\ UNCHANGED config
         ELSE /\ pc' = "run"
              /\ config' = [files |-> files,
                            lines |-> l.num,
                            bytes |-> IF b.kind = "Ok" THEN Some(b.num) ELSE None,
                            print_header |-> policy]
              /\ UNCHANGED err
  /\ UNCHANGED <<pvars, lineSpec, byteSpec, files, policy, data, stdin,
                 file_num, out, log, ret>>

(***************************************************************************)
(* open, lines 128-146.                                                    *)
(***************************************************************************)
\* one read_line: the length of the first line of s, terminator included
LineLen(s) ==
  IF \E i \in 1..Len(s) : s[i] = "\n"
  THEN CHOOSE i \in 1..Len(s) :
         s[i] = "\n" /\ \A j \in 1..(i - 1) : s[j] # "\n"
  ELSE Len(s)

\* BufRead::lines().count()
RECURSIVE LineCount(_)
LineCount(s) ==
  IF Len(s) = 0 THEN 0
  ELSE 1 + LineCount(SubSeq(s, LineLen(s) + 1, Len(s)))

\* Some(reader contents, size, line_count), or None when File::open fails
open(filename) ==
  IF filename = "-" THEN Some([file |-> stdin, size |-> 0, line_count |-> 1])
  ELSE IF filename = "a"
  THEN Some([file |-> data, size |-> Len(data), line_count |-> LineCount(data)])
  ELSE None

(***************************************************************************)
(* run, lines 77-126.  One action is one iteration of the loop over the    *)
(* files.  Reads of an opened source and writes to stdout do not fail.     *)
(***************************************************************************)
\* lines 88-92
PrintHeader(num_files) ==
  IF config.print_header = "Always" THEN TRUE
  ELSE IF config.print_header = "Never" THEN FALSE
  ELSE num_files > 1

\* lines 94-100: println!("{}==> {} <==", ...)
HeaderText(fnum, filename) ==
  (IF fnum > 0 THEN <<"\n">> ELSE << >>) \o <<"==> ", filename, " <==", "\n">>

\* lines 105-107: the argument of take()
TakeCount(num_bytes, size) ==
  AsUsize(IF IsNeg(num_bytes)
          THEN Add(UsizeAsI128(size), num_bytes)
          ELSE num_bytes)

\* Iterator::take(n) over the bytes of s, collected (sizes of the model are
\* below 2^24)
TakeBytes(s, n) ==
  IF \E j \in 4..UsizeLimbs : n[j] # 0 THEN s
  ELSE SubSeq(s, 1, Min(n[1] + Base * n[2] + Base * Base * n[3], Len(s)))

\* String::from_utf8_lossy: an invalid sequence becomes U+FFFD
RECURSIVE Lossy(_)
Lossy(s) ==
  IF Len(s) = 0 THEN << >>
  ELSE IF s[1] \in {"a", "\n"} THEN <<s[1]>> \o Lossy(Tail(s))
  ELSE IF s[1] = "xC3" /\ Len(s) >= 2 /\ s[2] = "xA9"
       THEN <<"xC3", "xA9">> \o Lossy(SubSeq(s, 3, Len(s)))
  ELSE <<"xEF", "xBF", "xBD">> \o Lossy(Tail(s))

\* NumLines without the total added to a negative count
NumLinesNoTotal(lines, line_count) == lines

\* lines 112-114
NumLines(lines, line_count) ==
  IF IsNeg(lines) THEN Add(UsizeAsI128(line_count), lines) ELSE lines

\* lines 115-122: what the loop prints, i the iterations done so far
RECURSIVE LinesLoop(_, _, _)
LinesLoop(s, i, num_lines) ==
  IF ~SLess(FromNat(i), num_lines) THEN << >>
  ELSE IF LineLen(s) = 0 THEN << >>
  ELSE SubSeq(s, 1, LineLen(s))
         \o LinesLoop(SubSeq(s, LineLen(s) + 1, Len(s)), i + 1, num_lines)

Suffixes(s) == {SubSeq(s, i, Len(s)) : i \in 1..(Len(s) + 1)}

\* What a later reader of the same source sees.  A file is reopened from the
\* start.  The BufReader over standard input is dropped with what it had
\* buffered: after a read, any suffix of the unread rest may be left.
Consume(filename, file, used, didRead) ==
  IF filename # "-" \/ ~didRead THEN stdin' = stdin
  ELSE stdin' \in Suffixes(SubSeq(file, used + 1, Len(file)))

Entry(filename, file, header, text) ==
  [idx |-> file_num, name |-> filename, avail |-> file,
   header |-> header, text |-> text]

\* RunOpenErr returning the error instead of continuing
RunOpenErrAbort ==
  /\ pc = "run"
  /\ file_num < Len(config.files)
  /\ open(config.files[file_num + 1]) = None
  /\ err' = Append(err, config.files[file_num + 1])
  /\ pc' = "done"
  /\ ret' = "Err"
  /\ UNCHANGED <<pvars, lineSpec, byteSpec, files, policy, data, stdin,
                 config, file_num, out, log>>

\* lines 80-86: open fails, the error goes to stderr, the loop continues
RunOpenErr ==
  /\ pc = "run"
  /\ file_num < Len(config.files)
  /\ open(config.files[file_num + 1]) = None
  /\ err' = Append(err, config.files[file_num + 1])
  /\ file_num' = file_num + 1
  /\ UNCHANGED <<pvars, lineSpec, byteSpec, files, policy, data, stdin,
                 config, pc, out, log, ret>>

\* lines 94-109: one iteration in byte mode
RunBytes ==
  /\ pc = "run"
  /\ file_num < Len(config.files)
  /\ config.bytes # None
  /\ LET filename == config.files[file_num + 1]
         o == open(filename)
     IN  /\ o # None
         /\ LET n == TakeCount(Get(config.bytes), Get(o).size)
                bytes == TakeBytes(Get(o).file, n)
                header == PrintHeader(Len(config.files))
                text == Lossy(bytes)
            IN  /\ out' = out \o (IF header THEN HeaderText(file_num, filename)
                                  ELSE << >>) \o text
                /\ log' = Append(log, Entry(filename, Get(o).file, header, text))
                /\ Consume(filename, Get(o).file, Len(bytes),
                           \E j \in 1..UsizeLimbs : n[j] # 0)
  /\ file_num' = file_num + 1
  /\ UNCHANGED <<pvars, lineSpec, byteSpec, files, policy, data,
                 config, pc, err, ret>>

\* lines 94-100, 110-123: one iteration in line mode
RunLines ==
  /\ pc = "run"
  /\ file_num < Len(config.files)
  /\ config.bytes = None
  /\ LET filename == config.files[file_num + 1]
         o == open(filename)
     IN  /\ o # None
         /\ LET num_lines == NumLines(config.lines, Get(o).line_count)
                header == PrintHeader(Len(config.files))
                text == LinesLoop(Get(o).file, 0, num_lines)
            IN  /\ out' = out \o (IF header THEN HeaderText(file_num, filename)
                                  ELSE << >>) \o text
                /\ log' = Append(log, Entry(filename, Get(o).file, header, text))
                /\ Consume(filename, Get(o).file, Len(text),
                           SLess(FromNat(0), num_lines))
  /\ file_num' = file_num + 1
  /\ UNCHANGED <<pvars, lineSpec, byteSpec, files, policy, data,
                 config, pc, err, ret>>

\* line 125: Ok(())
RunReturn ==
  /\ pc = "run"
  /\ file_num = Len(config.files)
  /\ pc' = "done"
  /\ ret' = "Ok"
  /\ UNCHANGED <<pvars, lineSpec, byteSpec, files, policy, data, stdin,
                 config, file_num, out, err, log>>

Init ==
  /\ val = << >> /\ res = NoR /\ ppc = "idle"
  /\ files \in FileLists
  /\ policy \in Policies
  /\ data \in Contents
  /\ stdin \in StdinContents
  /\ \/ byteSpec = None /\ lineSpec \in LineSpecs
     \/ byteSpec \in {Some(b) : b \in ByteSpecs} /\ lineSpec = <<"1", "0">>
  /\ config = NoR /\ pc = "args" /\ file_num = 0
  /\ out = << >> /\ err = << >> /\ log = << >> /\ ret = "None"

Next ==
  \/ GetArgs
  \/ RunOpenErr
  \/ RunBytes
  \/ RunLines
  \/ RunReturn

Spec == Init /\ [][Next]_vars

(***************************************************************************)
(* Reference notions the properties are stated with.                       *)
(***************************************************************************)
Max(a, b) == IF a > b THEN a ELSE b

\* the value of an i128 of small magnitude
ToInt(x) ==
  IF IsNeg(x)
  THEN x[1] + Base * x[2] + Base * Base * x[3] - Base * Base * Base
  ELSE x[1] + Base * x[2] + Base * Base * x[3]

RefDigit ==
  [c \in {"0", "1", "2", "3", "4", "5", "6", "7", "8", "9"} |->
     CASE c = "0" -> 0 [] c = "1" -> 1 [] c = "2" -> 2 [] c = "3" -> 3
       [] c = "4" -> 4 [] c = "5" -> 5 [] c = "6" -> 6 [] c = "7" -> 7
       [] c = "8" -> 8 [] c = "9" -> 9]

RefIndex ==
  [c \in {"K", "M", "G", "T", "P", "E", "Z", "Y"} |->
     CASE c = "K" -> 0 [] c = "M" -> 1 [] c = "G" -> 2 [] c = "T" -> 3
       [] c = "P" -> 4 [] c = "E" -> 5 [] c = "Z" -> 6 [] c = "Y" -> 7]

AllDigits(s) == Len(s) > 0 /\ \A i \in 1..Len(s) : s[i] \in DOMAIN RefDigit

\* an optional sign followed by digits
IsLiteral(s) ==
  \/ AllDigits(s)
  \/ Len(s) > 1 /\ s[1] \in {"+", "-"} /\ AllDigits(Tail(s))

RECURSIVE PlaceSum(_, _)
PlaceSum(d, i) ==
  IF i > Len(d) THEN 0
  ELSE RefDigit[d[i]] * Pow(10, Len(d) - i) + PlaceSum(d, i + 1)

\* the integer a literal denotes
RefValue(s) ==
  IF s[1] = "-" THEN 0 - PlaceSum(Tail(s), 1)
  ELSE IF s[1] = "+" THEN PlaceSum(Tail(s), 1)
  ELSE PlaceSum(s, 1)

\* str(k) for k >= 0
RECURSIVE Str(_)
Str(k) ==
  LET d == CHOOSE c \in DOMAIN RefDigit : RefDigit[c] = k % 10
  IN  IF k < 10 THEN <<d>> ELSE Append(Str(k \div 10), d)

\* x * m and x * b^e by repeated addition
RECURSIVE TimesN(_, _)
TimesN(x, m) == IF m = 0 THEN FromNat(0) ELSE Add(x, TimesN(x, m - 1))

RECURSIVE RefScale(_, _, _)
RefScale(x, b, e) == IF e = 0 THEN x ELSE RefScale(TimesN(x, b), b, e - 1)

Body(v, cut) == SubSeq(v, 1, Len(v) - cut)

(***************************************************************************)
(* Properties of parse (specification ParseSpec).                          *)
(***************************************************************************)
\* C9: without a suffix, a literal made of an optional '-' or '+' and
\* digits parses to exactly the integer it denotes; str(k) parses to k.
C9_PlainLiteral ==
  (ppc = "ret" /\ IsLiteral(val)) =>
     /\ res.kind = "Ok"
     /\ res.num = FromInt(RefValue(val))
     /\ ToInt(res.num) = RefValue(val)
     /\ (AllDigits(val) /\ (val[1] # "0" \/ Len(val) = 1))
          => Str(ToInt(res.num)) = val

C9_Witness ==
  /\ ppc = "ret"
  /\ val = <<"-", "1", "3">>
  /\ res.kind = "Ok"
  /\ ToInt(res.num) = 0 - 13

\* C4: d + "kB" parses to 1000 * d, and d + letter + "B" to d * 10^(i+1)
\* for the letter at 0-based index i of K,M,G,T,P,E,Z,Y.
C4_DecimalSuffix ==
  (/\ ppc = "ret"
   /\ Len(val) >= 3
   /\ val[Len(val)] = "B"
   /\ val[Len(val) - 1] \in {"k"} \cup DOMAIN RefIndex
   /\ IsLiteral(Body(val, 2))) =>
     LET d == FromInt(RefValue(Body(val, 2)))
         c == val[Len(val) - 1]
     IN  res = OkR(IF c = "k" THEN RefScale(d, 10, 3)
                   ELSE RefScale(d, 10, RefIndex[c] + 1))

\* C5: d + "b" parses to 512 * d, d + letter to d * 2^(10*(i+1)) for the
\* letter at index i of K,M,G,T,P,E,Z,Y, and "3k" to 3 * 1024.
C5_BinarySuffix ==
  (ppc = "ret" /\ Len(val) >= 2 /\ IsLiteral(Body(val, 1))) =>
     LET d == FromInt(RefValue(Body(val, 1)))
         c == val[Len(val)]
     IN  /\ c = "b" => res = OkR(RefScale(d, 2, 9))
         /\ c \in DOMAIN RefIndex
              => res = OkR(RefScale(d, 2, 10 * (RefIndex[c] + 1)))
         /\ val = <<"3", "k">> => res = OkR(RefScale(d, 2, 10))

\* the strings of the grammar: a literal and an optional unit suffix
Grammatical(v) ==
  \/ IsLiteral(v)
  \/ /\ Len(v) >= 2
     /\ v[Len(v)] \in {"b", "k"} \cup DOMAIN RefIndex
     /\ IsLiteral(Body(v, 1))
  \/ /\ Len(v) >= 3
     /\ v[Len(v)] = "B"
     /\ v[Len(v) - 1] \in {"k"} \cup DOMAIN RefIndex
     /\ IsLiteral(Body(v, 2))

\* C6: on every string outside the grammar parse returns an error whose
\* text is the input, unmodified; it never panics and never returns a number.
C6_MalformedEchoed ==
  (ppc = "ret" /\ ~Grammatical(val)) => res = ErrR(val)

(***************************************************************************)
(* Properties of run (specification Spec).                                 *)
(***************************************************************************)
Running == pc \in {"run", "done"}

\* the records of the sources extracted so far
Entries == {log[k] : k \in 1..Len(log)}

RECURSIVE Flatten(_)
Flatten(l) ==
  IF Len(l) = 0 THEN << >>
  ELSE Flatten(SubSeq(l, 1, Len(l) - 1))
         \o (IF l[Len(l)].header
             THEN HeaderText(l[Len(l)].idx, l[Len(l)].name) ELSE << >>)
         \o l[Len(l)].text

Newlines(s) == {i \in 1..Len(s) : s[i] = "\n"}

\* totalLines: a final unterminated line counts
RefLineCount(s) ==
  Cardinality(Newlines(s))
    + (IF Len(s) > 0 /\ s[Len(s)] # "\n" THEN 1 ELSE 0)

\* the first k lines of s
RefFirstLines(s, k) ==
  IF k = 0 THEN << >>
  ELSE IF Cardinality(Newlines(s)) < k THEN s
  ELSE SubSeq(s, 1, CHOOSE p \in Newlines(s) :
                      Cardinality({q \in Newlines(s) : q <= p}) = k)

C8_OpenFailureIsolated ==
  Running =>
     /\ Len(log) = Cardinality({i \in 1..file_num : files[i] # "m"})
     /\ \A k \in 1..Len(log) :
          /\ log[k].idx < file_num
          /\ files[log[k].idx + 1] = log[k].name
          /\ log[k].name # "m"
          /\ k > 1 => log[k - 1].idx < log[k].idx
          /\ log[k].header <=>
               (policy = "Always" \/ (policy = "Multiple" /\ Len(files) > 1))
     /\ Len(err) = Cardinality({i \in 1..file_num : files[i] = "m"})
     /\ out = Flatten(log)
     /\ pc = "done" => file_num = Len(files)

C8_Witness ==
  /\ pc = "done"
  /\ files = <<"m", "a">>
  /\ policy = "Multiple"
  /\ err = <<"m">>
  /\ Len(log) = 1
  /\ log[1].name = "a"
  /\ log[1].header
  /\ Len(log[1].text) > 0

\* C3: when a source fails to open, run returns a failure.
C3_FailureReported ==
  (pc = "done" /\ \E i \in 1..Len(files) : files[i] = "m") => ret = "Err"

\* C7: when headers are printed, the output starts with the first header,
\* with no blank line before it, and every later header follows a newline.
C7_HeaderSeparation ==
  (pc = "done" /\ \E p \in 1..Len(out) : out[p] = "==> ") =>
     /\ out[1] = "==> "
     /\ \A p \in 2..Len(out) : out[p] = "==> " => out[p - 1] = "\n"

\* C1: in byte mode with magnitude -m a source yields exactly its first
\* max(0, byteSize - m) bytes, byteSize being 0 for standard input.
C1_NegativeBytes ==
  (Running /\ config.bytes # None /\ IsNeg(Get(config.bytes))) =>
     \A e \in Entries :
       LET S == IF e.name = "-" THEN 0 ELSE Len(e.avail)
           n == Max(0, S + ToInt(Get(config.bytes)))
       IN  e.text = Lossy(SubSeq(e.avail, 1, n))

\* C10: in byte mode with a magnitude n >= 0, also one of 2^64 and more, a
\* source of S bytes yields exactly its first min(n, S) bytes.
C10_NonNegativeBytes ==
  (Running /\ config.bytes # None /\ ~IsNeg(Get(config.bytes))) =>
     \A e \in Entries :
       LET n == Get(config.bytes)
           k == IF \E j \in 4..I128Limbs : n[j] # 0 THEN Len(e.avail)
                ELSE Min(ToInt(n), Len(e.avail))
       IN  e.text = Lossy(SubSeq(e.avail, 1, k))

====
